---- MODULE Spec2Model ----
(***************************************************************************)
(* Model of src/main.py (etiam-si/odlocbe-tools): the EMSO checksum        *)
(* validator, the two text locators, the per-document processor and the    *)
(* batch driver.                                                           *)
(*                                                                         *)
(* Python strings are sequences of one-character strings.  The character   *)
(* U+0160 (capital S with caron) is written "U+0160".  A Python value that *)
(* may be None is a sequence of length 0 (None) or 1 (the value).          *)
(***************************************************************************)
EXTENDS Integers, Sequences, FiniteSets, TLC

VARIABLES
    pc,                    \* position of the run
    emso,                  \* validate_emso: the argument
    edits,                 \* number of digits of emso changed from its base
    built,                 \* prefix + str(control digit), the round trip's string
    is_valid,              \* validate_emso: the returned value
    accepted,              \* 13th digits validate_emso accepts for emso's prefix
    text,                  \* find_valid_emso / get_stevilka: the argument
    ntokens,               \* number of tokens text was put together from
    numbers,               \* find_valid_emso: the list re.findall returned
    ret,                   \* find_valid_emso: the returned tuple
    stevilka,              \* get_stevilka: the returned value
    input_path,            \* main: args.path
    disk,                  \* what the file system holds at input_path
    pdf_files_to_process,  \* main: the files selected
    idx,                   \* main: number of files the loop has consumed
    results,               \* main: the records collected
    output,                \* the output file: None, or the list written
    raised                 \* None, or the exception that ended the run

vars == <<pc, emso, edits, built, is_valid, accepted, text, ntokens, numbers,
          ret, stevilka,
          input_path, disk, pdf_files_to_process, idx, results, output, raised>>

emsoVars == <<emso, edits, built, is_valid, accepted>>
textVars == <<text, ntokens, numbers, ret, stevilka>>
mainVars == <<input_path, disk, pdf_files_to_process, idx, results, output, raised>>

-----------------------------------------------------------------------------
(* Python values *)

None == <<>>

Some(x) == <<x>>

DigitChars == <<"0", "1", "2", "3", "4", "5", "6", "7", "8", "9">>

IsDigit(c) == \E i \in 1..Len(DigitChars) : DigitChars[i] = c

\* int(c) of a one-digit string
int(c) == (CHOOSE i \in 1..Len(DigitChars) : DigitChars[i] = c) - 1

\* str(n) of a non-negative integer: its decimal digits
RECURSIVE str(_)
str(n) ==
    IF n < 10 THEN <<DigitChars[n + 1]>>
    ELSE str(n \div 10) \o <<DigitChars[(n % 10) + 1]>>

-----------------------------------------------------------------------------
(* validate_emso *)

emso_factor_map_swapped == <<7, 6, 5, 4, 3, 2, 7, 6, 5, 4, 2, 3>>

emso_factor_map == <<7, 6, 5, 4, 3, 2, 7, 6, 5, 4, 3, 2>>

\* sum([int(emso[i]) * emso_factor_map[i] for i in range(n)])
RECURSIVE weighted_sum(_, _)
weighted_sum(e, n) ==
    IF n = 0 THEN 0
    ELSE weighted_sum(e, n - 1) + int(e[n]) * emso_factor_map[n]

control_digit_no_zero_case(e) == 11 - (weighted_sum(e, 12) % 11)

control_digit(e) ==
    LET r == weighted_sum(e, 12) % 11
    IN  IF r = 0 THEN 0 ELSE 11 - r

validate_emso_off_by_one(e) == control_digit(e) = int(e[12])

validate_emso(e) == control_digit(e) = int(e[13])

-----------------------------------------------------------------------------
(* The validator on its own: 13-digit strings within MaxEdits digit        *)
(* changes of a base string.                                               *)

MaxEdits == 2

ZeroEmso == [i \in 1..13 |-> "0"]

SampleEmso == <<"0", "1", "0", "1", "0", "0", "6", "5", "0", "0", "0", "0", "6">>

BaseEmsos == {ZeroEmso, SampleEmso}

IdleMain ==
    /\ input_path = <<>>
    /\ disk = [kind |-> "missing", listing |-> <<>>]
    /\ pdf_files_to_process = <<>>
    /\ idx = 0
    /\ results = <<>>
    /\ output = None
    /\ raised = None

IdleText ==
    /\ text = <<>>
    /\ ntokens = 0
    /\ numbers = <<>>
    /\ ret = None
    /\ stevilka = None

IdleEmso ==
    /\ emso = ZeroEmso
    /\ edits = 0
    /\ built = <<>>
    /\ is_valid = FALSE
    /\ accepted = {}

InitEmso ==
    /\ pc = "emso_input"
    /\ emso \in BaseEmsos
    /\ edits = 0
    /\ built = <<>>
    /\ is_valid = FALSE
    /\ accepted = {}
    /\ IdleText
    /\ IdleMain

EditDigit(i, c) ==
    /\ pc = "emso_input"
    /\ edits < MaxEdits
    /\ emso[i] # c
    /\ emso' = [emso EXCEPT ![i] = c]
    /\ edits' = edits + 1
    /\ UNCHANGED <<pc, built, is_valid, accepted, textVars, mainVars>>

\* is_valid = validate_emso(emso)
ValidateEmso ==
    /\ pc = "emso_input"
    /\ is_valid' = validate_emso(emso)
    /\ pc' = "validated"
    /\ UNCHANGED <<emso, edits, built, accepted, textVars, mainVars>>

\* validate_emso(prefix + str(control digit of prefix))
RoundTrip ==
    /\ pc = "emso_input"
    /\ built' = SubSeq(emso, 1, 12) \o str(control_digit(emso))
    /\ is_valid' = validate_emso(built')
    /\ pc' = "round_trip"
    /\ UNCHANGED <<emso, edits, accepted, textVars, mainVars>>

\* validate_emso(prefix + d) for each decimal digit d
SweepLastDigit ==
    /\ pc = "emso_input"
    /\ accepted' = {d \in 0..9 :
                      validate_emso(SubSeq(emso, 1, 12) \o <<DigitChars[d + 1]>>)}
    /\ pc' = "swept"
    /\ UNCHANGED <<emso, edits, built, is_valid, textVars, mainVars>>

NextEmso ==
    \/ \E i \in 1..13 : \E d \in 1..10 : EditDigit(i, DigitChars[d])
    \/ ValidateEmso
    \/ RoundTrip
    \/ SweepLastDigit

SpecEmso == InitEmso /\ [][NextEmso]_vars

-----------------------------------------------------------------------------
(* Claims about validate_emso *)

\* The digit at 0-based position i of the argument
Digit(i) == int(emso[i + 1])

StatedSum ==
    Digit(0) * 7 + Digit(1) * 6 + Digit(2) * 5 + Digit(3) * 4 + Digit(4) * 3
    + Digit(5) * 2 + Digit(6) * 7 + Digit(7) * 6 + Digit(8) * 5 + Digit(9) * 4
    + Digit(10) * 3 + Digit(11) * 2

StatedControl == IF StatedSum % 11 = 0 THEN 0 ELSE 11 - (StatedSum % 11)

C10_WitnessOne ==
    /\ pc = "swept"
    /\ Cardinality(accepted) = 1

-----------------------------------------------------------------------------
(* Character classes of Python's re and str *)

Letters == {"U+0160", "S", "t", "e", "v", "i", "l", "k", "a"}

\* \w: letters, digits and the underscore
IsWord(c) == IsDigit(c) \/ c \in Letters \/ c = "_"

\* what str.strip() removes
IsSpace(c) == c \in {" ", "\t", "\n", "\r", "\f"}

-----------------------------------------------------------------------------
(* find_valid_emso *)

\* Whether the character at 1-based index i exists and is a word character
WordAt(t, i) == i >= 1 /\ i <= Len(t) /\ IsWord(t[i])

\* \b between the characters at 1-based indices p and p + 1
word_boundary(t, p) == WordAt(t, p) # WordAt(t, p + 1)

match_at_unanchored(t, s) ==
    /\ s + 12 <= Len(t)
    /\ \A k \in s..(s + 12) : IsDigit(t[k])

match_at_space_delimited(t, s) ==
    /\ s + 12 <= Len(t)
    /\ s = 1 \/ IsSpace(t[s - 1])
    /\ \A k \in s..(s + 12) : IsDigit(t[k])
    /\ s + 12 = Len(t) \/ IsSpace(t[s + 13])

\* r'\b\d{13}\b' matches at 1-based index s
match_at(t, s) ==
    /\ s + 12 <= Len(t)
    /\ word_boundary(t, s - 1)
    /\ \A k \in s..(s + 12) : IsDigit(t[k])
    /\ word_boundary(t, s + 12)

\* re.findall scanning from 1-based index s: non-overlapping matches, left
\* to right
RECURSIVE findall_from(_, _)
findall_from(t, s) ==
    IF s > Len(t) THEN <<>>
    ELSE IF match_at(t, s)
         THEN <<SubSeq(t, s, s + 12)>> \o findall_from(t, s + 13)
         ELSE findall_from(t, s + 1)

findall(t) == findall_from(t, 1)

find_valid_emso_first_valid(t) ==
    LET nums  == findall(t)
        valid == {i \in 1..Len(nums) : validate_emso(nums[i])}
        pick  == IF valid = {} THEN 1
                 ELSE CHOOSE i \in valid : \A j \in valid : i <= j
    IN  IF nums = <<>>
        THEN <<None, FALSE, "No 13-digit number found">>
        ELSE <<Some(nums[pick]), validate_emso(nums[pick])>>

find_valid_emso(t) ==
    LET nums == findall(t)
    IN  IF nums = <<>>
        THEN <<None, FALSE, "No 13-digit number found">>
        ELSE <<Some(nums[1]), validate_emso(nums[1])>>

-----------------------------------------------------------------------------
(* get_stevilka *)

key == <<"U+0160", "t", "e", "v", "i", "l", "k", "a", ":">>

\* str.find(sub, start): the least 0-based offset >= start where sub occurs,
\* or -1
find(t, sub, start) ==
    LET hits == {i \in start..(Len(t) - Len(sub)) :
                    SubSeq(t, i + 1, i + Len(sub)) = sub}
    IN  IF hits = {} THEN -1
        ELSE CHOOSE i \in hits : \A j \in hits : i <= j

\* str.rfind(sub): the greatest such offset, or -1
rfind(t, sub) ==
    LET hits == {i \in 0..(Len(t) - Len(sub)) :
                    SubSeq(t, i + 1, i + Len(sub)) = sub}
    IN  IF hits = {} THEN -1
        ELSE CHOOSE i \in hits : \A j \in hits : i >= j

\* str.strip()
RECURSIVE strip(_)
strip(s) ==
    IF s = <<>> THEN s
    ELSE IF IsSpace(s[1]) THEN strip(Tail(s))
    ELSE IF IsSpace(s[Len(s)]) THEN strip(SubSeq(s, 1, Len(s) - 1))
    ELSE s

\* text[start:end] with 0 <= start, end <= len(text)
slice(t, start, end) == SubSeq(t, start + 1, end)

get_stevilka_last_label(t) ==
    LET found == rfind(t, key)
        start == found + Len(key)
        nl    == find(t, <<"\n">>, start)
        end   == IF nl = -1 THEN Len(t) ELSE nl
    IN  IF found = -1 THEN None ELSE Some(strip(slice(t, start, end)))

get_stevilka(t) ==
    LET found == find(t, key, 0)
        start == found + Len(key)
        nl    == find(t, <<"\n">>, start)
        end   == IF nl = -1 THEN Len(t) ELSE nl
    IN  IF found = -1 THEN None ELSE Some(strip(slice(t, start, end)))

-----------------------------------------------------------------------------
(* The locators on their own: texts of at most MaxTokens tokens.           *)

MaxTokens == 4

InvalidEmso == <<"1", "2", "3", "4", "5", "6", "7", "8", "9", "0", "1", "2", "3">>

Tokens ==
    { SampleEmso, InvalidEmso, SubSeq(InvalidEmso, 1, 12), <<"7">>,
      <<" ">>, <<"\n">>, <<"\t">>, <<"a">>, <<"_">>, <<"-">>,
      key, <<"S", "t", "e", "v", "i", "l", "k", "a", ":">> }

InitText ==
    /\ pc = "text_input"
    /\ text = <<>>
    /\ numbers = <<>>
    /\ ret = None
    /\ stevilka = None
    /\ ntokens = 0
    /\ IdleEmso
    /\ IdleMain

AppendToken(tok) ==
    /\ pc = "text_input"
    /\ ntokens < MaxTokens
    /\ text' = text \o tok
    /\ ntokens' = ntokens + 1
    /\ UNCHANGED <<pc, numbers, ret, stevilka, emsoVars, mainVars>>

\* find_valid_emso(text)
FindValidEmso ==
    /\ pc = "text_input"
    /\ numbers' = findall(text)
    /\ ret' = find_valid_emso(text)
    /\ pc' = "located"
    /\ UNCHANGED <<text, ntokens, stevilka, emsoVars, mainVars>>

\* get_stevilka(text)
GetStevilka ==
    /\ pc = "text_input"
    /\ stevilka' = get_stevilka(text)
    /\ pc' = "extracted"
    /\ UNCHANGED <<text, ntokens, numbers, ret, emsoVars, mainVars>>

NextText ==
    \/ \E tok \in Tokens : AppendToken(tok)
    \/ FindValidEmso
    \/ GetStevilka

SpecText == InitText /\ [][NextText]_vars

-----------------------------------------------------------------------------
(* Claims about find_valid_emso *)

Run(s) == SubSeq(text, s, s + 12)

\* Exactly 13 digits start at 1-based index s, with a non-digit character or
\* an end of the text on each side
DigitRunAt(s) ==
    /\ s >= 1
    /\ s + 12 <= Len(text)
    /\ \A k \in s..(s + 12) : IsDigit(text[k])
    /\ s = 1 \/ ~IsDigit(text[s - 1])
    /\ s + 12 = Len(text) \/ ~IsDigit(text[s + 13])

\* The same, with a non-word character (neither letter, digit nor
\* underscore) or an end of the text on each side
QualifyingAt(s) ==
    /\ DigitRunAt(s)
    /\ s = 1 \/ ~IsWord(text[s - 1])
    /\ s + 12 = Len(text) \/ ~IsWord(text[s + 13])

Candidates == {numbers[i] : i \in 1..Len(numbers)}

\* At least n consecutive digits start at 1-based index s
DigitsFrom(s, n) ==
    /\ s + n - 1 <= Len(text)
    /\ \A k \in s..(s + n - 1) : IsDigit(text[k])

\* C5 as stated: every run of exactly 13 digits with a non-digit character or
\* an end of the text on each side is a candidate, whatever the non-digit
\* characters are.
C5_AnyNonDigitBounds ==
    pc = "located" =>
        \A s \in 1..Len(text) : DigitRunAt(s) => Run(s) \in Candidates

\* C5 amended: every run of exactly 13 digits with, on each side, an end of
\* the text or a character that is neither a letter, a digit nor an
\* underscore is a candidate, and there are exactly as many candidates as
\* such runs: a run that touches a letter or an underscore is none.
C5_NonWordBounds ==
    pc = "located" =>
        /\ \A s \in 1..Len(text) : QualifyingAt(s) => Run(s) \in Candidates
        /\ Len(numbers) = Cardinality({s \in 1..Len(text) : QualifyingAt(s)})

C5_Witness ==
    /\ pc = "located"
    /\ \E s \in 2..Len(text) :
          /\ QualifyingAt(s)
          /\ text[s - 1] = "-"
          /\ s + 12 < Len(text)
          /\ text[s + 13] = "-"
          /\ Run(s) \in Candidates

\* C6: no candidate, and no returned identifier, lies inside a longer digit
\* run: each is a run of exactly 13 digits of the text; a text whose digit
\* runs all have another length gives 'not found'.
C6_NeverInsideLongerRun ==
    pc = "located" =>
        /\ \A n \in Candidates :
              \E s \in 1..Len(text) : DigitRunAt(s) /\ Run(s) = n
        /\ ret[1] # None =>
              \E s \in 1..Len(text) : DigitRunAt(s) /\ Run(s) = ret[1][1]
        /\ (\A s \in 1..Len(text) : ~DigitRunAt(s)) =>
              /\ numbers = <<>>
              /\ ret[1] = None
              /\ ret[2] = FALSE

C6_Witness ==
    /\ pc = "located"
    /\ \E s \in 1..Len(text) : DigitsFrom(s, 14)
    /\ \A s \in 1..Len(text) : ~DigitRunAt(s)
    /\ numbers = <<>>
    /\ ret[1] = None

FirstQualifying ==
    CHOOSE s \in 1..Len(text) :
        QualifyingAt(s) /\ \A r \in 1..(s - 1) : ~QualifyingAt(r)

-----------------------------------------------------------------------------
(* Claims about get_stevilka *)

\* The label occurs at 1-based index i
LabelAt(i) == i + Len(key) - 1 <= Len(text) /\ SubSeq(text, i, i + Len(key) - 1) = key

FirstLabel == CHOOSE i \in 1..Len(text) : LabelAt(i) /\ \A j \in 1..(i - 1) : ~LabelAt(j)

\* The 1-based index of the first newline at or after index i, or one past
\* the end of the text
LineEnd(i) ==
    CHOOSE e \in i..(Len(text) + 1) :
        /\ e = Len(text) + 1 \/ text[e] = "\n"
        /\ \A k \in i..(e - 1) : text[k] # "\n"

\* r is raw without its leading and trailing whitespace
IsTrimOf(r, raw) ==
    \E a, b \in 0..Len(raw) :
        /\ a + b <= Len(raw)
        /\ r = SubSeq(raw, a + 1, Len(raw) - b)
        /\ \A k \in 1..a : IsSpace(raw[k])
        /\ \A k \in (Len(raw) - b + 1)..Len(raw) : IsSpace(raw[k])
        /\ r # <<>> => ~IsSpace(r[1]) /\ ~IsSpace(r[Len(r)])

\* C8: get_stevilka returns None when the label does not occur; otherwise
\* the text between the end of the first occurrence of the label and the
\* next newline (or the end of the text), trimmed of whitespace, the empty
\* string included.
C8_FirstLabelTrimmedLine ==
    pc = "extracted" =>
        IF \A i \in 1..Len(text) : ~LabelAt(i)
        THEN stevilka = None
        ELSE /\ Len(stevilka) = 1
             /\ LET from == FirstLabel + Len(key)
                IN  IsTrimOf(stevilka[1], SubSeq(text, from, LineEnd(from) - 1))

C8_Witness ==
    /\ pc = "extracted"
    /\ \E i, j \in 1..Len(text) : i < j /\ LabelAt(i) /\ LabelAt(j)
    /\ text[FirstLabel + Len(key)] = " "
    /\ stevilka = Some(<<>>)

C8_WitnessValue ==
    /\ pc = "extracted"
    /\ \E i \in 2..Len(text) : LabelAt(i)
    /\ FirstLabel > 1
    /\ FirstLabel + Len(key) < Len(text)
    /\ text[FirstLabel + Len(key)] = "\t"
    /\ text[Len(text)] = " "
    /\ stevilka = Some(<<"a">>)

C8_WitnessLaterLabel ==
    /\ pc = "extracted"
    /\ \E i, j \in 1..Len(text) : i < j /\ LabelAt(i) /\ LabelAt(j)
    /\ stevilka = Some(<<"a">>)

-----------------------------------------------------------------------------
(* The file system the run sees.  A path is the sequence of its            *)
(* components, a file name a sequence of characters.  A PDF on disk either *)
(* does not exist, cannot be parsed, or holds pages of text.               *)

PdfName(stem) == <<stem, ".", "p", "d", "f">>

UpperPdfName == <<"u", ".", "P", "D", "F">>

TxtName == <<"x", ".", "t", "x", "t">>

NoFile == [exists |-> FALSE, parses |-> FALSE, pages |-> <<>>]

Pdf(pages) == [exists |-> TRUE, parses |-> TRUE, pages |-> pages]

CorruptPdf == [exists |-> TRUE, parses |-> FALSE, pages |-> <<>>]

\* What open() and PdfReader find under the file name
Disk(name) ==
    CASE name = PdfName("a") -> Pdf(<<key \o <<" ", "a", " ">>, <<>>, SampleEmso>>)
      [] name = PdfName("b") -> Pdf(<<InvalidEmso \o <<" ">> \o SampleEmso>>)
      [] name = PdfName("c") -> Pdf(<<key \o <<"a">>>>)
      [] name = PdfName("d") -> Pdf(<<<<>>, <<>>>>)
      [] name = PdfName("e") -> CorruptPdf
      [] name = PdfName("g") -> Pdf(<<<<"a">> \o SampleEmso>>)
      [] name = UpperPdfName -> Pdf(<<SampleEmso>>)
      [] name = TxtName -> Pdf(<<SampleEmso>>)
      [] OTHER -> NoFile

DirNames ==
    { PdfName("a"), PdfName("b"), PdfName("c"), PdfName("d"), PdfName("e"),
      PdfName("g"), PdfName("h"), TxtName }

FileNames == {PdfName("a"), PdfName("c"), PdfName("d"), UpperPdfName, TxtName}

-----------------------------------------------------------------------------
(* str and os.path helpers *)

\* str.lower()
lower(s) ==
    [i \in 1..Len(s) |->
        CASE s[i] = "P" -> "p"
          [] s[i] = "D" -> "d"
          [] s[i] = "F" -> "f"
          [] s[i] = "S" -> "s"
          [] OTHER -> s[i]]

\* str.endswith(suffix)
endswith(s, suffix) ==
    /\ Len(suffix) <= Len(s)
    /\ SubSeq(s, Len(s) - Len(suffix) + 1, Len(s)) = suffix

\* os.path.basename(path)
basename(path) == path[Len(path)]

\* os.path.join(directory, name)
join_path(directory, name) == directory \o <<name>>

\* sep.join(parts)
RECURSIVE join(_, _)
join(sep, parts) ==
    IF parts = <<>> THEN <<>>
    ELSE IF Len(parts) = 1 THEN parts[1]
    ELSE parts[1] \o sep \o join(sep, Tail(parts))

\* glob.glob(os.path.join(directory, '*.pdf')), in the directory's order
RECURSIVE glob_pdf(_, _)
glob_pdf(directory, listing) ==
    IF listing = <<>> THEN <<>>
    ELSE (IF endswith(listing[1], <<".", "p", "d", "f">>)
          THEN <<join_path(directory, listing[1])>>
          ELSE <<>>) \o glob_pdf(directory, Tail(listing))

-----------------------------------------------------------------------------
(* extract_text_from_pdf and process_pdf *)

\* [text for text in (page.extract_text() for page in reader.pages) if text]
RECURSIVE full_text(_)
full_text(pages) ==
    IF pages = <<>> THEN <<>>
    ELSE (IF pages[1] # <<>> THEN <<pages[1]>> ELSE <<>>) \o full_text(Tail(pages))

extract_text_from_pdf(pdf_path) ==
    LET file == Disk(basename(pdf_path))
    IN  IF ~file.exists THEN <<>>
        ELSE IF ~file.parses THEN <<>>
        ELSE join(<<"\n">>, full_text(file.pages))

\* The outcome of a call: the exception it raised, or the value it returned
Raise(exc) == [exc |-> Some(exc), value |-> None]

Return(value) == [exc |-> None, value |-> value]

process_pdf(pdf_path) ==
    LET extracted_text == extract_text_from_pdf(pdf_path)
        found == find_valid_emso(extracted_text)
    IN  IF extracted_text = <<>> THEN Return(None)
        ELSE IF Len(found) # 2 THEN Raise("ValueError")
        ELSE Return(Some([fileName          |-> basename(pdf_path),
                          stevilkaDokumenta |-> get_stevilka(extracted_text),
                          emso              |-> found[1],
                          emsoIsValid       |-> found[2]]))

-----------------------------------------------------------------------------
(* main *)

MaxFiles == 3

\* The directory listings: at most MaxFiles distinct names, in any order
Listings ==
    UNION { {l \in [1..n -> DirNames] : \A i, j \in 1..n : l[i] = l[j] => i = j}
            : n \in 0..MaxFiles }

InputDir == <<"in">>

Init ==
    /\ pc = "start"
    /\ \/ /\ input_path = InputDir
          /\ \E l \in Listings : disk = [kind |-> "dir", listing |-> l]
       \/ /\ \E n \in FileNames : input_path = join_path(InputDir, n)
          /\ disk \in {[kind |-> k, listing |-> <<>>] : k \in {"file", "missing", "other"}}
    /\ pdf_files_to_process = <<>>
    /\ idx = 0
    /\ results = <<>>
    /\ output = None
    /\ raised = None
    /\ IdleEmso
    /\ IdleText

\* main, from the argument to the start of the loop
ResolvePath ==
    /\ pc = "start"
    /\ IF disk.kind = "missing"
       THEN pc' = "halted" /\ UNCHANGED pdf_files_to_process
       ELSE IF disk.kind = "dir"
       THEN /\ pdf_files_to_process' = glob_pdf(input_path, disk.listing)
            /\ pc' = "loop"
       ELSE IF disk.kind = "file"
               /\ endswith(lower(basename(input_path)), <<".", "p", "d", "f">>)
       THEN /\ pdf_files_to_process' = <<input_path>>
            /\ pc' = "loop"
       ELSE pc' = "halted" /\ UNCHANGED pdf_files_to_process
    /\ results' = <<>>
    /\ UNCHANGED <<input_path, disk, idx, output, raised, emsoVars, textVars>>

\* one iteration of the loop over pdf_files_to_process
ProcessPdf ==
    /\ pc = "loop"
    /\ idx < Len(pdf_files_to_process)
    /\ LET data == process_pdf(pdf_files_to_process[idx + 1])
       IN  /\ idx' = idx + 1
           /\ IF data.exc # None
              THEN /\ raised' = data.exc
                   /\ pc' = "raised"
                   /\ UNCHANGED results
              ELSE /\ results' = (IF data.value # None
                                  THEN Append(results, data.value[1])
                                  ELSE results)
                   /\ UNCHANGED <<pc, raised>>
    /\ UNCHANGED <<input_path, disk, pdf_files_to_process, output, emsoVars,
                   textVars>>

\* json.dump(results, f) once the loop is over
WriteOutput ==
    /\ pc = "loop"
    /\ idx = Len(pdf_files_to_process)
    /\ output' = Some(results)
    /\ pc' = "complete"
    /\ UNCHANGED <<input_path, disk, pdf_files_to_process, idx, results, raised,
                   emsoVars, textVars>>

Next ==
    \/ ResolvePath
    \/ ProcessPdf
    \/ WriteOutput

Spec == Init /\ [][Next]_vars

-----------------------------------------------------------------------------
(* Claims about process_pdf and main *)

\* The text extracted from the k-th selected file
TextOf(k) == extract_text_from_pdf(pdf_files_to_process[k])

NameOf(k) == basename(pdf_files_to_process[k])

\* t holds 13 consecutive digits nowhere
NoThirteenDigits(t) ==
    \A s \in 1..Len(t) : ~(s + 12 <= Len(t) /\ \A k \in s..(s + 12) : IsDigit(t[k]))

HasLabel(t) == \E i \in 1..Len(t) : SubSeq(t, i, i + Len(key) - 1) = key

\* The file names of the first n selected files that yield text, in order
NamesWithText(n) ==
    LET paths == SelectSeq(SubSeq(pdf_files_to_process, 1, n),
                           LAMBDA q : extract_text_from_pdf(q) # <<>>)
    IN  [i \in 1..Len(paths) |-> basename(paths[i])]

RecordedNames == [i \in 1..Len(results) |-> results[i].fileName]

\* C2: a document whose non-empty text holds no 13-digit run raises nothing
\* and still gives a record, with emso null and emsoIsValid false (and
\* stevilkaDokumenta null when the label is missing too).
C2_NoRunStillRecorded ==
    \A k \in 1..idx :
        (TextOf(k) # <<>> /\ NoThirteenDigits(TextOf(k))) =>
            /\ raised = None
            /\ \E i \in 1..Len(results) :
                  /\ results[i].fileName = NameOf(k)
                  /\ results[i].emso = None
                  /\ results[i].emsoIsValid = FALSE
                  /\ ~HasLabel(TextOf(k)) => results[i].stevilkaDokumenta = None

PathError ==
    \/ disk.kind = "missing"
    \/ /\ disk.kind # "dir"
       /\ ~(disk.kind = "file"
            /\ endswith(lower(basename(input_path)), <<".", "p", "d", "f">>))

\* C3: a run that has ended either halted on an input-path error, with no
\* document processed and no output written, or processed every selected
\* document and wrote the records collected; no document's content makes it
\* end without the output file.
C3_EndsInOneOfTwoWays ==
    pc \in {"halted", "complete", "raised"} =>
        \/ /\ PathError
           /\ idx = 0
           /\ output = None
           /\ raised = None
        \/ /\ ~PathError
           /\ idx = Len(pdf_files_to_process)
           /\ raised = None
           /\ output = Some(results)
           /\ RecordedNames = NamesWithText(idx)

\* C4: in a batch of several files one of which gives empty text, nothing is
\* raised and the records collected are those of the files consumed so far
\* that gave text, in the order processed, wherever the empty file stands.
C4_EmptyFileDoesNotStopBatch ==
    ( /\ pc \in {"loop", "complete", "raised"}
      /\ Len(pdf_files_to_process) >= 2
      /\ \E k \in 1..Len(pdf_files_to_process) : TextOf(k) = <<>> ) =>
        /\ raised = None
        /\ RecordedNames = NamesWithText(idx)

====
